---------------------------- MODULE Spec2Model ----------------------------
(***************************************************************************)
(* A model of preview-ocr: the OCR token pipeline of ocr.py (get_text,     *)
(* fix_size_and_position, get_plain_text) and the selection state machine  *)
(* of main.py (IVGraphicsView's mouse handlers and ImageViewer's slots).   *)
(*                                                                         *)
(* Strings are sequences of one-character strings, so that str.strip and   *)
(* "".join are computed.  Python's None is the empty tuple.  Python lists  *)
(* are sequences; list positions are 1-based here (Python's i is i - 1).   *)
(* The float geometry of a token holds the integers Tesseract prints.      *)
(***************************************************************************)
EXTENDS Integers, Sequences, FiniteSets, TLC

VARIABLES
    \* ---- ImageViewer / IVGraphicsView (main.py)
    _fileName,        \* ImageViewer._fileName
    _text,            \* ImageViewer._text: list[ocr.Text]
    _textRectItems,   \* ImageViewer._textRectItems: list[IVGraphicsRectItem]
    _firstText,       \* IVGraphicsView._firstText: the drag anchor, or None
    scene,            \* the items held by ImageViewer._graphicScene
    cursor,           \* the view's cursor shape
    clipboard,        \* QApplication.clipboard() text
    loads,            \* number of _loadImage calls so far (item identity)
    running,          \* FALSE once an unhandled exception has aborted the app
    lastCall,         \* the last handler that ran: [op, args, err]
    \* ---- the functions of ocr.py applied to one OCR output
    data,             \* the rows of pytesseract.image_to_data
    tokens,           \* the list[Text] the functions are applied to
    calls             \* the calls made so far: <<[fn, arg, in, out], ...>>

guiVars == <<_fileName, _text, _textRectItems, _firstText, scene, cursor,
             clipboard, loads, running, lastCall>>
ocrVars == <<data, tokens, calls>>
vars == <<_fileName, _text, _textRectItems, _firstText, scene, cursor,
          clipboard, loads, running, lastCall, data, tokens, calls>>

None == <<>>

(***************************************************************************)
(* Bounds.                                                                 *)
(***************************************************************************)
MaxRows == 3
MaxLoads == 3

(***************************************************************************)
(* Strings.                                                                *)
(***************************************************************************)
Whitespace == {" ", "\t", "\n", "\r"}

RECURSIVE lstrip(_)
lstrip(s) ==
    IF s = <<>> THEN s
    ELSE IF Head(s) \in Whitespace THEN lstrip(Tail(s)) ELSE s

RECURSIVE rstrip(_)
rstrip(s) ==
    IF s = <<>> THEN s
    ELSE IF s[Len(s)] \in Whitespace THEN rstrip(SubSeq(s, 1, Len(s) - 1)) ELSE s

\* str.strip()
strip(s) == rstrip(lstrip(s))

\* "".join(pieces)
RECURSIVE join(_)
join(pieces) ==
    IF pieces = <<>> THEN <<>> ELSE Head(pieces) \o join(Tail(pieces))

(***************************************************************************)
(* ocr.Text and Text.from_row.  A row is one record of the OCR output,     *)
(* keyed by Tesseract's column names; its numeric columns hold the values  *)
(* that int() and float() read from them.                                  *)
(***************************************************************************)
from_row(row) ==
    [level     |-> row.level,
     page      |-> row.page_num,
     block     |-> row.block_num,
     paragraph |-> row.par_num,
     line      |-> row.line_num,
     word      |-> row.word_num,
     left      |-> row.left,
     top       |-> row.top,
     width     |-> row.width,
     height    |-> row.height,
     conf      |-> row.conf,
     text      |-> row.text]

\* filter(lambda i: i.text.strip(), text): a non-empty string is truthy
KeepsText(t) == strip(t.text) # <<>>

\* a variant that never filters
get_text_unfiltered(rows, include_empty) ==
    [i \in DOMAIN rows |-> from_row(rows[i])]

\* get_text, from the OCR output on: map from_row, drop the blank tokens
\* unless include_empty
get_text(rows, include_empty) ==
    LET text == [i \in DOMAIN rows |-> from_row(rows[i])]
    IN  IF ~include_empty THEN SelectSeq(text, KeepsText) ELSE text

(***************************************************************************)
(* fix_size_and_position.                                                  *)
(***************************************************************************)
\* a variant that leaves the block out of the key
LineKeyNoBlock(t) == <<t.page, t.paragraph, 0, t.line>>

\* the key of group_by_line
LineKey(t) == <<t.page, t.paragraph, t.block, t.line>>

\* group_by_line[k]: the positions of the tokens appended under k, in order
group_by_line(text) ==
    [k \in {LineKey(text[i]) : i \in DOMAIN text} |->
        SelectSeq([i \in DOMAIN text |-> i], LAMBDA i : LineKey(text[i]) = k)]

\* max(...) and min(...) over a non-empty list
RECURSIVE max(_)
max(s) ==
    IF Len(s) = 1 THEN s[1]
    ELSE LET m == max(Tail(s)) IN IF s[1] >= m THEN s[1] ELSE m

RECURSIVE min(_)
min(s) ==
    IF Len(s) = 1 THEN s[1]
    ELSE LET m == min(Tail(s)) IN IF s[1] <= m THEN s[1] ELSE m

GroupHeight(text, group) == max([j \in DOMAIN group |-> text[group[j]].height])

GroupTop(text, group) == min([j \in DOMAIN group |-> text[group[j]].top])

\* a variant that stretches each token down to its old bottom edge
AssignKeepingBottom(t, height, top) ==
    [t EXCEPT !.height = height + (t.top - top), !.top = top]

\* i.height = height; i.top = top
Assign(t, height, top) == [t EXCEPT !.height = height, !.top = top]

\* the list after the in-place update
fix_size_and_position(text) ==
    LET groups == group_by_line(text)
    IN  [i \in DOMAIN text |->
            LET group == groups[LineKey(text[i])]
            IN  Assign(text[i], GroupHeight(text, group), GroupTop(text, group))]

(***************************************************************************)
(* get_plain_text.                                                         *)
(***************************************************************************)
\* a variant that never breaks the line
SeparatorAlwaysSpace(line, t) == " "

\* sep of one loop iteration; line is None or <<the line of the last token>>
Separator(line, t) == IF line # <<t.line>> THEN "\n" ELSE " "

\* the list plain_text after the loop has run from position i on
RECURSIVE PlainPieces(_, _, _)
PlainPieces(text, i, line) ==
    IF i > Len(text) THEN <<>>
    ELSE <<<<Separator(line, text[i])>>, text[i].text>>
            \o PlainPieces(text, i + 1, <<text[i].line>>)

get_plain_text(text) ==
    IF Len(text) = 0 THEN <<>> ELSE strip(join(PlainPieces(text, 1, None)))

(***************************************************************************)
(* The functions of ocr.py applied to one OCR output.  The rows are drawn  *)
(* from small sets: three line groups (two lines of one block, and a line  *)
(* of a second block that reuses line number 1), and either the geometry   *)
(* or the text varied.                                                     *)
(***************************************************************************)
\* <<page_num, block_num, par_num, line_num>>
RowPlaces == {<<1, 1, 1, 1>>, <<1, 1, 1, 2>>, <<1, 2, 1, 1>>}
RowTops == {98, 100}
RowHeights == {10, 14}
RowTexts == {<<>>, <<" ">>, <<"a">>, <<" ", "b">>, <<"c", " ">>}

Row(place, top, height, text) ==
    [level |-> 5, page_num |-> place[1], block_num |-> place[2],
     par_num |-> place[3], line_num |-> place[4], word_num |-> 1,
     left |-> 5, top |-> top, width |-> 20, height |-> height,
     conf |-> "95", text |-> text]

\* word rows, and per place one blank row taller and higher than any word
\* (the row Tesseract prints for the line itself carries such a box)
GeometryRows ==
    {Row(p, t, h, <<"a">>) : p \in RowPlaces, t \in RowTops, h \in RowHeights}
        \cup {Row(p, 96, 20, <<" ">>) : p \in RowPlaces}

TextRows == {Row(p, 100, 10, x) : p \in RowPlaces, x \in RowTexts}

SeqsUpTo(S, n) == UNION {[1..k -> S] : k \in 0..n}

\* the state of the window while only ocr.py is exercised
NoWindow ==
    /\ _fileName = ""
    /\ _text = <<>>
    /\ _textRectItems = <<>>
    /\ _firstText = None
    /\ scene = {}
    /\ cursor = "Arrow"
    /\ clipboard = <<>>
    /\ loads = 0
    /\ running = FALSE
    /\ lastCall = [op |-> "none", args |-> <<>>, err |-> "none", before |-> <<>>]

InitNorm ==
    /\ NoWindow
    /\ data \in SeqsUpTo(GeometryRows, MaxRows)
    /\ tokens = <<>>
    /\ calls = <<>>

InitText ==
    /\ NoWindow
    /\ data \in SeqsUpTo(TextRows, MaxRows)
    /\ tokens = <<>>
    /\ calls = <<>>

Called(fn) == Len(SelectSeq(calls, LAMBDA c : c.fn = fn))

Call(fn, arg, in, out) == [fn |-> fn, arg |-> arg, in |-> in, out |-> out]

\* text = ocr.get_text(...), with either value of include_empty
GetText ==
    /\ calls = <<>>
    /\ \E include_empty \in BOOLEAN :
        LET out == get_text(data, include_empty)
        IN  /\ tokens' = out
            /\ calls' = <<Call("get_text", include_empty, data, out)>>
    /\ UNCHANGED <<data, guiVars>>

\* ocr.fix_size_and_position(text), once and then once more
FixSizeAndPosition ==
    /\ Called("get_text") = 1
    /\ Called("fix_size_and_position") < 2
    /\ Called("get_plain_text") = 0
    /\ LET out == fix_size_and_position(tokens)
       IN  /\ tokens' = out
           /\ calls' = Append(calls, Call("fix_size_and_position", None, tokens, out))
    /\ UNCHANGED <<data, guiVars>>

\* ocr.get_plain_text(text)
GetPlainText ==
    /\ Called("get_text") = 1
    /\ Called("get_plain_text") = 0
    /\ calls' = Append(calls, Call("get_plain_text", None, tokens, get_plain_text(tokens)))
    /\ UNCHANGED <<data, tokens, guiVars>>

NextNorm == GetText \/ FixSizeAndPosition

NextText == GetText \/ GetPlainText

SpecNorm == InitNorm /\ [][NextNorm]_vars

SpecText == InitText /\ [][NextText]_vars

(***************************************************************************)
(* The image files of the window model and what OCR returns for each.      *)
(* Tesseract prints one row per page, block, paragraph and line (level 1   *)
(* to 4, blank text, conf -1) besides the rows of the words (level 5).     *)
(***************************************************************************)
LineRow(place, left, top, width, height) ==
    [level |-> 4, page_num |-> place[1], block_num |-> place[2],
     par_num |-> place[3], line_num |-> place[4], word_num |-> 0,
     left |-> left, top |-> top, width |-> width, height |-> height,
     conf |-> "-1", text |-> <<>>]

WordRow(place, word, left, top, width, height, text) ==
    [level |-> 5, page_num |-> place[1], block_num |-> place[2],
     par_num |-> place[3], line_num |-> place[4], word_num |-> word,
     left |-> left, top |-> top, width |-> width, height |-> height,
     conf |-> "95", text |-> text]

Files == {"two_lines.png", "two_blocks.png", "blank.png", "no_dpi.png"}

\* image.info["dpi"] exists (_getInitScale)
HasDpi(fileName) == fileName # "no_dpi.png"

\* pytesseract.image_to_data(image, ...) read by csv.DictReader
OcrOutput(fileName) ==
    CASE fileName = "two_lines.png" ->
            << LineRow(<<1, 1, 1, 1>>, 10, 96, 95, 18),
               WordRow(<<1, 1, 1, 1>>, 1, 10, 100, 40, 10, <<"H", "i">>),
               WordRow(<<1, 1, 1, 1>>, 2, 60, 98, 45, 14, <<"y", "o">>),
               LineRow(<<1, 1, 1, 2>>, 10, 140, 30, 12),
               WordRow(<<1, 1, 1, 2>>, 1, 10, 140, 30, 12, <<"F", "o">>) >>
      [] fileName = "two_blocks.png" ->
            << LineRow(<<1, 1, 1, 1>>, 10, 20, 70, 12),
               WordRow(<<1, 1, 1, 1>>, 1, 10, 20, 30, 12, <<"a">>),
               WordRow(<<1, 1, 1, 1>>, 2, 50, 22, 30, 10, <<"b">>),
               LineRow(<<1, 2, 1, 1>>, 10, 60, 30, 12),
               WordRow(<<1, 2, 1, 1>>, 1, 10, 60, 30, 12, <<"c">>) >>
      [] fileName = "blank.png" ->
            << LineRow(<<1, 0, 0, 0>>, 0, 0, 200, 200) >>
      [] OTHER -> << >>

(***************************************************************************)
(* IVGraphicsRectItem and the scene.  An item is known by its identity:    *)
(* <<"rect", n, i>> is the i-th item made by the n-th _loadImage.          *)
(***************************************************************************)
RectId(n, i) == <<"rect", n, i>>
PixmapId(n) == <<"pixmap", n>>

\* isinstance(item, IVGraphicsRectItem)
IsRectItem(item) == item # None /\ item[1] = "rect"

\* _doOCR, lines 264-266
DoOCRText(fileName) == fix_size_and_position(get_text(OcrOutput(fileName), FALSE))

\* _doOCR, lines 271-281: one new unselected item per token
DoOCRItems(text, n) ==
    [i \in DOMAIN text |->
        [id         |-> RectId(n, i),
         rect       |-> <<text[i].left, text[i].top, text[i].width, text[i].height>>,
         textObject |-> text[i],
         isSelected |-> FALSE]]

ItemIds(items) == {items[i].id : i \in DOMAIN items}

\* a variant that keeps the anchor
keepFirstText == _firstText

\* IVGraphicsView.clearFirstText
clearFirstText == None

\* a variant in the manner of str.find: -1 when x is absent
find(list, x) ==
    IF \E i \in DOMAIN list : list[i].id = x
    THEN CHOOSE i \in DOMAIN list :
            /\ list[i].id = x
            /\ \A j \in DOMAIN list : list[j].id = x => i <= j
    ELSE -1

\* list.index(x): the first position holding x; 0 stands for ValueError
index(list, x) ==
    IF \E i \in DOMAIN list : list[i].id = x
    THEN CHOOSE i \in DOMAIN list :
            /\ list[i].id = x
            /\ \A j \in DOMAIN list : list[j].id = x => i <= j
    ELSE 0

\* variants that leave out one end of the range
InRangeOpenEnd(i, start, end) == start <= i /\ i < end

InRangeOpenStart(i, start, end) == start < i /\ i <= end

\* start <= i <= end
InRange(i, start, end) == start <= i /\ i <= end

\* ImageViewer._setSelectedText: [err, items]
_setSelectedText(items, first, second) ==
    LET a == index(items, first)
        b == index(items, second)
    IN  IF a = 0 \/ b = 0
        THEN [err |-> "ValueError", items |-> items]
        ELSE LET start == min(<<a, b>>)
                 end == max(<<a, b>>)
                 textReactItemsRange ==
                    SelectSeq([i \in DOMAIN items |-> i],
                              LAMBDA i : InRange(i, start, end))
                 inRange(i) ==
                    \E k \in DOMAIN textReactItemsRange :
                        items[textReactItemsRange[k]].id = items[i].id
             IN  [err   |-> "none",
                  items |-> [i \in DOMAIN items |->
                                [items[i] EXCEPT !.isSelected = inRange(i)]]]

\* a variant whose loop stops one item early
clearAllButLast(items) ==
    [i \in DOMAIN items |->
        IF i < Len(items) THEN [items[i] EXCEPT !.isSelected = FALSE] ELSE items[i]]

\* ImageViewer._clearSelectedText
_clearSelectedText(items) ==
    [i \in DOMAIN items |-> [items[i] EXCEPT !.isSelected = FALSE]]

\* [i.getTextObject() for i in self._textRectItems if i.isSelected()]
SelectedPositions(items) ==
    SelectSeq([i \in DOMAIN items |-> i], LAMBDA i : items[i].isSelected)

SelectedText(items) ==
    LET sel == SelectedPositions(items)
    IN  [k \in DOMAIN sel |-> items[sel[k]].textObject]

Handler(op, args, err) ==
    [op |-> op, args |-> args, err |-> err, before |-> _textRectItems]

(***************************************************************************)
(* The window after construction: ImageViewer.__init__ has loaded the file *)
(* chosen in main().                                                       *)
(***************************************************************************)
Init ==
    /\ \E fileName \in {f \in Files : HasDpi(f)} :
        /\ _fileName = fileName
        /\ _text = DoOCRText(fileName)
        /\ _textRectItems = DoOCRItems(DoOCRText(fileName), 1)
        /\ scene = {PixmapId(1)} \cup ItemIds(DoOCRItems(DoOCRText(fileName), 1))
        /\ lastCall = [op |-> "_loadImage", args |-> <<fileName>>, err |-> "none",
                       before |-> <<>>]
    /\ _firstText = None
    /\ cursor = "Arrow"
    /\ clipboard = <<>>
    /\ loads = 1
    /\ running = TRUE
    /\ data = <<>>
    /\ tokens = <<>>
    /\ calls = <<>>

\* ImageViewer._loadImage.  Without dpi information _getInitScale raises
\* KeyError after the scene and the anchor were cleared; the exception leaves
\* the slot unhandled and PyQt6 aborts the application.
_loadImage(fileName) ==
    /\ _fileName' = fileName
    /\ loads' = loads + 1
    /\ _firstText' = clearFirstText
    /\ IF HasDpi(fileName)
       THEN /\ _text' = DoOCRText(fileName)
            /\ _textRectItems' = DoOCRItems(DoOCRText(fileName), loads + 1)
            /\ scene' = {PixmapId(loads + 1)}
                            \cup ItemIds(DoOCRItems(DoOCRText(fileName), loads + 1))
            /\ lastCall' = Handler("_loadImage", <<fileName>>, "none")
            /\ UNCHANGED running
       ELSE /\ scene' = {PixmapId(loads + 1)}
            /\ lastCall' = Handler("_loadImage", <<fileName>>, "KeyError")
            /\ running' = FALSE
            /\ UNCHANGED <<_text, _textRectItems>>
    /\ UNCHANGED <<cursor, clipboard, ocrVars>>

\* ImageViewer._openFile: QFileDialog.getOpenFileName returns a file name, or
\* "" when the dialog is cancelled (showFileDialog then returns None)
_openFile ==
    /\ running
    /\ loads < MaxLoads
    /\ \E fileName \in Files \cup {""} :
        IF fileName # "" THEN _loadImage(fileName) ELSE UNCHANGED vars

\* IVGraphicsView.mousePressEvent; item is self.itemAt(event.pos())
mousePressEvent ==
    /\ running
    /\ \E item \in scene \cup {None} :
        /\ _textRectItems' = _clearSelectedText(_textRectItems)
        /\ _firstText' = IF IsRectItem(item) THEN item ELSE _firstText
        /\ lastCall' = Handler("mousePressEvent", <<item>>, "none")
    /\ UNCHANGED <<_fileName, _text, scene, cursor, clipboard, loads, running, ocrVars>>

\* IVGraphicsView.mouseMoveEvent
mouseMoveEvent ==
    /\ running
    /\ \E item \in scene \cup {None} :
        IF IsRectItem(item)
        THEN /\ cursor' = "IBeam"
             /\ IF _firstText # None
                THEN LET r == _setSelectedText(_textRectItems, _firstText, item)
                     IN  /\ _textRectItems' = r.items
                         /\ running' = (r.err = "none")
                         /\ lastCall' = Handler("mouseMoveEvent", <<item>>, r.err)
                ELSE /\ lastCall' = Handler("mouseMoveEvent", <<item>>, "none")
                     /\ UNCHANGED <<_textRectItems, running>>
        ELSE /\ cursor' = "Arrow"
             /\ lastCall' = Handler("mouseMoveEvent", <<item>>, "none")
             /\ UNCHANGED <<_textRectItems, running>>
    /\ UNCHANGED <<_fileName, _text, _firstText, scene, clipboard, loads, ocrVars>>

\* IVGraphicsView.mouseReleaseEvent
mouseReleaseEvent ==
    /\ running
    /\ _firstText' = clearFirstText
    /\ lastCall' = Handler("mouseReleaseEvent", <<>>, "none")
    /\ UNCHANGED <<_fileName, _text, _textRectItems, scene, cursor, clipboard,
                   loads, running, ocrVars>>

\* ImageViewer._copyTextToClipboard
_copyTextToClipboard ==
    /\ running
    /\ clipboard' = get_plain_text(SelectedText(_textRectItems))
    /\ lastCall' = Handler("_copyTextToClipboard",
                           <<SelectedPositions(_textRectItems)>>, "none")
    /\ UNCHANGED <<_fileName, _text, _textRectItems, _firstText, scene, cursor,
                   loads, running, ocrVars>>

Next ==
    \/ _openFile
    \/ mousePressEvent
    \/ mouseMoveEvent
    \/ mouseReleaseEvent
    \/ _copyTextToClipboard

Spec == Init /\ [][Next]_vars

(***************************************************************************)
(* The slot and the item's setter called directly: from any selection, and *)
(* with any pair of items among those of the list, those the previous load *)
(* made (stale references) and <<"rect", 0, i>>, items never added to the  *)
(* list.  The caller receives the exception.                               *)
(***************************************************************************)
AnyItem ==
    ItemIds(_textRectItems) \cup {RectId(n, i) : n \in {0, loads - 1}, i \in 1..2}

\* ImageViewer._setSelectedText(first, second)
CallSetSelectedText ==
    /\ running
    /\ \E first \in AnyItem, second \in AnyItem :
        LET r == _setSelectedText(_textRectItems, first, second)
        IN  /\ _textRectItems' = r.items
            /\ lastCall' = Handler("_setSelectedText", <<first, second>>, r.err)
    /\ UNCHANGED <<_fileName, _text, _firstText, scene, cursor, clipboard, loads,
                   running, ocrVars>>

\* IVGraphicsRectItem.setSelected(selected)
setSelected ==
    /\ running
    /\ \E i \in DOMAIN _textRectItems, selected \in BOOLEAN :
        /\ _textRectItems' = [_textRectItems EXCEPT ![i].isSelected = selected]
        /\ lastCall' = Handler("setSelected", <<_textRectItems[i].id, selected>>, "none")
    /\ UNCHANGED <<_fileName, _text, _firstText, scene, cursor, clipboard, loads,
                   running, ocrVars>>

NextSlots == _openFile \/ CallSetSelectedText \/ setSelected

SpecSlots == Init /\ [][NextSlots]_vars

(***************************************************************************)
(* Properties.  Their vocabulary is defined apart from the operators       *)
(* above: maxima and minima of sets, trimming by positions, line groups by *)
(* field-wise comparison.                                                  *)
(***************************************************************************)
SetMax(S) == CHOOSE m \in S : \A x \in S : x <= m
SetMin(S) == CHOOSE m \in S : \A x \in S : m <= x

SamePlace(a, b) ==
    /\ a.page = b.page
    /\ a.paragraph = b.paragraph
    /\ a.block = b.block
    /\ a.line = b.line

NonBlank(s) == \E k \in DOMAIN s : s[k] \notin Whitespace

\* s without its leading and trailing whitespace
Trimmed(s) ==
    IF ~NonBlank(s) THEN <<>>
    ELSE LET inked == {k \in DOMAIN s : s[k] \notin Whitespace}
         IN  SubSeq(s, SetMin(inked), SetMax(inked))

\* the texts of text[1..n], a line break or a space between neighbours;
\* byGroup: a break where the line group changes, else where the line
\* field changes
RECURSIVE Joined(_, _, _)
Joined(text, n, byGroup) ==
    IF n = 0 THEN <<>>
    ELSE IF n = 1 THEN text[1].text
    ELSE LET broken == IF byGroup THEN ~SamePlace(text[n - 1], text[n])
                       ELSE text[n - 1].line # text[n].line
         IN  Joined(text, n - 1, byGroup)
                \o <<IF broken THEN "\n" ELSE " ">> \o text[n].text

FixCalls == {k \in DOMAIN calls : calls[k].fn = "fix_size_and_position"}
PlainCalls == {k \in DOMAIN calls : calls[k].fn = "get_plain_text"}

Selected == {i \in DOMAIN _textRectItems : _textRectItems[i].isSelected}
SelectedBefore == {i \in DOMAIN lastCall.before : lastCall.before[i].isSelected}
Known(item) == item \in ItemIds(_textRectItems)
Position(item) == CHOOSE i \in DOMAIN _textRectItems : _textRectItems[i].id = item
Interval(S) == S = {} \/ S = SetMin(S)..SetMax(S)

\* C1: after _setSelectedText(first, second) with both items in the list, the
\* item at position i is selected exactly when i lies between the positions
\* of the two items, whichever comes first and whatever was selected before;
\* nothing else of an item changes.
C1_RangeSelection ==
    (lastCall.op = "_setSelectedText"
        /\ Known(lastCall.args[1]) /\ Known(lastCall.args[2]))
    => LET ia == Position(lastCall.args[1])
           ib == Position(lastCall.args[2])
           lo == IF ia <= ib THEN ia ELSE ib
           hi == IF ia <= ib THEN ib ELSE ia
       IN  /\ lastCall.err = "none"
           /\ Selected = lo..hi
           /\ Len(_textRectItems) = Len(lastCall.before)
           /\ \A i \in DOMAIN _textRectItems :
                _textRectItems[i] =
                    [lastCall.before[i] EXCEPT !.isSelected = (i \in lo..hi)]

\* a backward range, from a selection that held an item outside the range and
\* lacked one inside it
C1_Witness ==
    /\ lastCall.op = "_setSelectedText"
    /\ lastCall.err = "none"
    /\ Known(lastCall.args[1]) /\ Known(lastCall.args[2])
    /\ Position(lastCall.args[1]) > Position(lastCall.args[2])
    /\ SelectedBefore \ Selected # {}
    /\ Selected \ SelectedBefore # {}

\* C2: fix_size_and_position gives every token the greatest height and the
\* least top found, before the call, among the tokens of its (page, paragraph,
\* block, line); tokens of one line so share top and height; left and width
\* stay.
C2_LineNormalizer ==
    \A k \in FixCalls :
        LET in == calls[k].in
            out == calls[k].out
        IN  /\ Len(out) = Len(in)
            /\ \A i \in DOMAIN in :
                LET g == {j \in DOMAIN in : SamePlace(in[j], in[i])}
                IN  /\ out[i].height = SetMax({in[j].height : j \in g})
                    /\ out[i].top = SetMin({in[j].top : j \in g})
                    /\ out[i].left = in[i].left
                    /\ out[i].width = in[i].width
                    /\ \A j \in g : /\ out[j].top = out[i].top
                                    /\ out[j].height = out[i].height

\* a line whose tallest token is not its highest, beside a line of another
\* block with the same line number
C2_Witness ==
    \E k \in FixCalls :
        \E i, j, m \in DOMAIN calls[k].in :
            LET in == calls[k].in
            IN  /\ SamePlace(in[i], in[j])
                /\ in[i].height > in[j].height
                /\ in[i].top > in[j].top
                /\ in[m].line = in[i].line
                /\ in[m].block # in[i].block
                /\ in[m].top < in[j].top

\* C3: get_plain_text returns the texts of the tokens, the first without a
\* separator before it, each later one after a newline if its line field
\* differs from its predecessor's and after one space otherwise, the whole
\* trimmed once; of no tokens it returns the empty string.
C3_PlainText ==
    \A k \in PlainCalls :
        /\ calls[k].out = Trimmed(Joined(calls[k].in, Len(calls[k].in), FALSE))
        /\ calls[k].in = <<>> => calls[k].out = <<>>

\* three tokens, a space and then a break between them, the first text
\* starting and the last ending with whitespace
C3_Witness ==
    \E k \in PlainCalls :
        LET in == calls[k].in
        IN  /\ Len(in) = 3
            /\ in[1].line = in[2].line
            /\ in[2].line # in[3].line
            /\ in[1].text = <<" ", "b">>
            /\ in[3].text = <<"c", " ">>

\* C4: in the pipeline of _doOCR (get_text with its default, then
\* fix_size_and_position) the blank rows are gone before the lines are
\* measured: the tokens are the non-blank rows in order, and each has the
\* greatest height and least top of the non-blank rows of its line.
C4_FilterBeforeNormalize ==
    (Len(calls) >= 2 /\ calls[1].fn = "get_text" /\ calls[1].arg = FALSE
        /\ calls[2].fn = "fix_size_and_position")
    => LET rows == calls[1].in
           kept == SelectSeq([i \in DOMAIN rows |-> i],
                             LAMBDA i : NonBlank(rows[i].text))
           out == calls[2].out
           mates(i) == {j \in DOMAIN kept :
                            /\ rows[kept[j]].page_num = rows[kept[i]].page_num
                            /\ rows[kept[j]].block_num = rows[kept[i]].block_num
                            /\ rows[kept[j]].par_num = rows[kept[i]].par_num
                            /\ rows[kept[j]].line_num = rows[kept[i]].line_num}
       IN  /\ \A i \in DOMAIN calls[2].in : NonBlank(calls[2].in[i].text)
           /\ Len(out) = Len(kept)
           /\ \A i \in DOMAIN kept :
                /\ out[i].text = rows[kept[i]].text
                /\ out[i].height = SetMax({rows[kept[j]].height : j \in mates(i)})
                /\ out[i].top = SetMin({rows[kept[j]].top : j \in mates(i)})

\* the pipeline has run on rows where a blank row is taller and higher than
\* the two words of its line
C4_Witness ==
    /\ Len(calls) >= 2
    /\ calls[1].fn = "get_text" /\ calls[1].arg = FALSE
    /\ calls[2].fn = "fix_size_and_position"
    /\ \E d, r, q \in DOMAIN data :
        /\ r # q
        /\ ~NonBlank(data[d].text)
        /\ NonBlank(data[r].text) /\ NonBlank(data[q].text)
        /\ \A w \in {r, q} :
            /\ data[d].block_num = data[w].block_num
            /\ data[d].line_num = data[w].line_num
            /\ data[d].height > data[w].height
            /\ data[d].top < data[w].top

\* C5: _setSelectedText with an item that is not in the list raises (the
\* ValueError of list.index) and leaves every item as it was.
C5_UnknownToken ==
    (lastCall.op = "_setSelectedText"
        /\ (~Known(lastCall.args[1]) \/ ~Known(lastCall.args[2])))
    => /\ lastCall.err = "ValueError"
       /\ _textRectItems = lastCall.before

\* a stale item of the previous load paired with an item of the list, while
\* something is selected
C5_Witness ==
    /\ lastCall.op = "_setSelectedText"
    /\ lastCall.err = "ValueError"
    /\ Known(lastCall.args[1])
    /\ lastCall.args[2][2] = loads - 1
    /\ loads >= 2
    /\ Selected # {}

\* C6 as stated: while the window runs with no drag in progress (the anchor
\* is None, as after any release), no item is selected.
C6_NoDragNoSelection == (running /\ _firstText = None) => Selected = {}

\* C6 amended: a mouse press, on an item or not, leaves no item selected; a
\* mouse release clears the anchor and leaves every item as it was.
C6_PressClearsReleaseKeeps ==
    /\ lastCall.op = "mousePressEvent" => Selected = {}
    /\ lastCall.op = "mouseReleaseEvent" =>
            /\ _firstText = None
            /\ _textRectItems = lastCall.before

\* a press outside every item has cleared a selection of two items
C6_Witness ==
    /\ lastCall.op = "mousePressEvent"
    /\ ~IsRectItem(lastCall.args[1])
    /\ Cardinality(SelectedBefore) >= 2
    /\ SelectedBefore \ {Len(lastCall.before)} # SelectedBefore

\* C7 as stated: get_plain_text breaks the line exactly between tokens of
\* different line groups (page, paragraph, block, line) and puts a space
\* between tokens of one group.
C7_BreaksFollowLineGroups ==
    \A k \in PlainCalls :
        calls[k].out = Trimmed(Joined(calls[k].in, Len(calls[k].in), TRUE))

\* C8: a second fix_size_and_position changes no token's top, height, left
\* or width.
C8_NormalizeIdempotent ==
    \A k \in FixCalls :
        (k - 1) \in FixCalls =>
            /\ Len(calls[k].out) = Len(calls[k - 1].out)
            /\ \A i \in DOMAIN calls[k].out :
                /\ calls[k].out[i].top = calls[k - 1].out[i].top
                /\ calls[k].out[i].height = calls[k - 1].out[i].height
                /\ calls[k].out[i].left = calls[k - 1].out[i].left
                /\ calls[k].out[i].width = calls[k - 1].out[i].width

\* the second call follows a first one that moved a token and resized another
C8_Witness ==
    \E k \in FixCalls :
        /\ (k - 1) \in FixCalls
        /\ \E i, j \in DOMAIN calls[k - 1].in :
            /\ calls[k - 1].in[i].top # calls[k - 1].out[i].top
            /\ calls[k - 1].in[j].height # calls[k - 1].out[j].height

\* C9: when _loadImage has returned, _text holds the non-blank rows of the
\* new file's OCR output in order, _textRectItems holds one new unselected
\* item per token, the scene holds these items and the new pixmap only, and
\* the anchor is None.
C9_ReloadReplaces ==
    (lastCall.op = "_loadImage" /\ lastCall.err = "none")
    => LET rows == OcrOutput(_fileName)
           kept == SelectSeq([i \in DOMAIN rows |-> i],
                             LAMBDA i : NonBlank(rows[i].text))
       IN  /\ Len(_text) = Len(kept)
           /\ Len(_textRectItems) = Len(kept)
           /\ \A i \in DOMAIN kept :
                /\ _text[i].text = rows[kept[i]].text
                /\ _text[i].word = rows[kept[i]].word_num
                /\ _text[i].line = rows[kept[i]].line_num
                /\ _text[i].block = rows[kept[i]].block_num
                /\ _text[i].left = rows[kept[i]].left
                /\ _textRectItems[i].textObject = _text[i]
                /\ _textRectItems[i].id = <<"rect", loads, i>>
                /\ ~_textRectItems[i].isSelected
           /\ ItemIds(_textRectItems) \cap ItemIds(lastCall.before) = {}
           /\ scene = {<<"pixmap", loads>>} \cup ItemIds(_textRectItems)
           /\ Selected = {}
           /\ _firstText = None

\* a second image has been loaded over one with other tokens and a selection
C9_Witness ==
    /\ lastCall.op = "_loadImage"
    /\ lastCall.err = "none"
    /\ loads >= 2
    /\ SelectedBefore # {}
    /\ Len(_textRectItems) # 0
    /\ \E i \in DOMAIN _text \cap DOMAIN lastCall.before :
        _text[i].text # lastCall.before[i].textObject.text

\* C10: the selected positions are none or one interval; while the anchor is
\* set it is an item of the list and a non-empty selection contains it; copy
\* hands get_plain_text the tokens of an interval, in order.
C10_SelectionInterval ==
    /\ Interval(Selected)
    /\ _firstText # None =>
            /\ Known(_firstText)
            /\ Selected # {} => Position(_firstText) \in Selected
    /\ lastCall.op = "_copyTextToClipboard" =>
            LET given == lastCall.args[1]
            IN  /\ \A k \in 1..(Len(given) - 1) : given[k + 1] = given[k] + 1
                /\ clipboard = get_plain_text(
                        [k \in DOMAIN given |-> _text[given[k]]])

\* copy during a drag that has gone backward over two of three items
C10_Witness ==
    /\ lastCall.op = "_copyTextToClipboard"
    /\ _firstText # None
    /\ Cardinality(Selected) = 2
    /\ Len(_textRectItems) = 3
    /\ Position(_firstText) = SetMax(Selected)

=============================================================================
